---- MODULE Spec2Model ----
(***************************************************************************)
(* Model of src/BlackScholes.py: the class Black_Scholes, its constructor  *)
(* and its six methods.  Python floats are modelled as fixed-point numbers *)
(* (an integer n stands for n / SCALE); math.exp, math.log, math.sqrt,     *)
(* scipy's norm.cdf and norm.pdf are computed by the fixed-point           *)
(* algorithms below, so every identity between outputs holds up to the     *)
(* rounding tolerance Tol, as it does in floating point.  Python           *)
(* exceptions are modelled as outcomes [err |-> <exception class>].        *)
(***************************************************************************)
EXTENDS Integers, Sequences, FiniteSets, TLC

VARIABLES self, ctor, last, calls

vars == <<self, ctor, last, calls>>

\* ------------------------------------------------------------ bounds

\* Fixed-point resolution: the integer n stands for the float n / SCALE.
SCALE == 10000

\* Strikes and spot prices range over {-2, 0} \cup 2..MaxPrice.
MaxPrice == 3

\* Method calls made on one instance.
MaxCalls == 3

\* Rounding tolerance of a comparison between two float expressions.
Tol == SCALE \div 500

\* ------------------------------------------------- float arithmetic

Abs(x) == IF x < 0 THEN -x ELSE x

\* x * y, rounded to the nearest representable value.
Mul(x, y) == (x * y + SCALE \div 2) \div SCALE

\* x / y for y # 0, rounded to the nearest representable value.
Div(x, y) ==
    IF y < 0 THEN ((-x) * SCALE + (-y) \div 2) \div (-y)
    ELSE (x * SCALE + y \div 2) \div y

\* A decimal literal given in ten-thousandths.
Lit(n) == (n * SCALE) \div 10000

RECURSIVE ExpSeries(_, _, _, _)
\* sum of x^n / n! from the term `term` = x^n / n! on.
ExpSeries(x, n, term, acc) ==
    IF term = 0 THEN acc
    ELSE ExpSeries(x, n + 1, Mul(term, x) \div (n + 1), acc + term)

RECURSIVE exp(_)
\* math.exp: e^x, by halving the argument until the series converges fast.
exp(x) ==
    IF Abs(x) > SCALE \div 2
    THEN LET h == exp(x \div 2) IN
         IF x % 2 = 0 THEN Mul(h, h) ELSE Mul(Mul(h, h), exp(1))
    ELSE ExpSeries(x, 0, SCALE, 0)

RECURSIVE AtanhSeries(_, _, _, _)
\* sum of z^(2k+1) / (2k+1) from the power `pw` = z^(2k+1) on.
AtanhSeries(zz, k, pw, acc) ==
    IF pw = 0 THEN acc
    ELSE AtanhSeries(zz, k + 1, Mul(pw, zz), acc + pw \div (2 * k + 1))

\* math.log for x > 0: ln x = 2 atanh((x - 1) / (x + 1)).
log(x) ==
    LET z == Div(x - SCALE, x + SCALE) IN
    2 * AtanhSeries(Mul(z, z), 0, z, 0)

RECURSIVE Newton(_, _)
\* The integer square root of n >= 1 by Newton's iteration from g.
Newton(n, g) ==
    LET h == (g + n \div g) \div 2 IN
    IF h >= g THEN g ELSE Newton(n, h)

\* math.sqrt for x >= 0.
sqrt(x) == IF x = 0 THEN 0 ELSE Newton(x * SCALE, x * SCALE)

\* scipy.stats.norm.pdf: exp(-x^2 / 2) / sqrt(2 pi); below one unit of
\* resolution beyond four standard deviations.
norm_pdf(x) ==
    IF Abs(x) >= 4 * SCALE THEN 0
    ELSE Div(exp(-(Mul(x, x) \div 2)), Lit(25066))

\* The upper tail 1 - Phi(z) for z >= 0 (Abramowitz & Stegun 26.2.17).
UpperTail(z) ==
    LET t == Div(SCALE, SCALE + Mul(Lit(2316), z))
        poly == Mul(t, Lit(3194) + Mul(t, Lit(-3566) + Mul(t, Lit(17815)
                    + Mul(t, Lit(-18213) + Mul(t, Lit(13303))))))
    IN  Mul(norm_pdf(z), poly)

\* scipy.stats.norm.cdf: the tail of |x|, reflected for x > 0 (as cephes'
\* ndtr does), so that norm_cdf(x) + norm_cdf(-x) = 1.
norm_cdf(x) ==
    LET y == UpperTail(Abs(x)) IN
    IF x > 0 THEN SCALE - y ELSE y

\* --------------------------------------------------------- outcomes

\* A method returns a list of floats, or raises.
Ok(v) == [err |-> "none", val |-> v]

Raise(e) == [err |-> e, val |-> <<>>]

NoInstance == [K |-> 0, T |-> 0, So |-> 0, r |-> 0, q |-> 0, mu |-> 0,
               div |-> "unconstructed"]

NoCall == [op |-> "none", out |-> Ok(<<>>)]

\* ---------------------------------------------------- Black_Scholes

\* Black_Scholes.__init__: stores its arguments, the term in years.
BlackScholesInit(K, T_trm, So, r, q, mu, div) ==
    [K |-> K * SCALE, T |-> Div(T_trm * SCALE, 12 * SCALE), So |-> So * SCALE,
     r |-> r, q |-> q, mu |-> mu, div |-> div]

\* carry_benefits with the non-dividend branch returning the yield.
carry_benefits_mut(obj) ==
    IF obj.div \in {"yes", "no"}
    THEN Ok(<<obj.q, exp(Mul(-obj.q, obj.T))>>)
    ELSE Raise("UnboundLocalError")

\* Black_Scholes.carry_benefits: neither branch binds carry and exp_carry
\* for any other value of div, and the return statement then raises.
carry_benefits(obj) ==
    IF obj.div = "yes" THEN Ok(<<obj.q, exp(Mul(-obj.q, obj.T))>>)
    ELSE IF obj.div = "no" THEN Ok(<<0, SCALE>>)
    ELSE Raise("UnboundLocalError")

\* d1_d2 with a guard that returns [0, 0] for a zero spot or strike.
d1_d2_mut(obj) ==
    LET carry == carry_benefits(obj) IN
    IF carry.err # "none" THEN carry
    ELSE IF obj.K = 0 \/ obj.So = 0 THEN Ok(<<0, 0>>)
    ELSE IF Div(obj.So, obj.K) <= 0 \/ obj.T < 0 THEN Raise("ValueError")
    ELSE LET a == log(Div(obj.So, obj.K))
             b == Mul(obj.r - carry.val[1] + Mul(obj.mu, obj.mu) \div 2, obj.T)
             c == Mul(obj.mu, sqrt(obj.T))
         IN  IF c = 0 THEN Raise("ZeroDivisionError")
             ELSE Ok(<<Div(a + b, c), Div(a + b, c) - c>>)

\* Black_Scholes.d1_d2, statement by statement: So / K raises
\* ZeroDivisionError for K = 0, math.log raises ValueError for a ratio <= 0,
\* math.sqrt raises ValueError for T < 0, and (a + b) / c raises
\* ZeroDivisionError for c = 0.
d1_d2(obj) ==
    LET carry == carry_benefits(obj) IN
    IF carry.err # "none" THEN carry
    ELSE IF obj.K = 0 THEN Raise("ZeroDivisionError")
    ELSE IF Div(obj.So, obj.K) <= 0 THEN Raise("ValueError")
    ELSE IF obj.T < 0 THEN Raise("ValueError")
    ELSE LET a == log(Div(obj.So, obj.K))
             b == Mul(obj.r - carry.val[1] + Mul(obj.mu, obj.mu) \div 2, obj.T)
             c == Mul(obj.mu, sqrt(obj.T))
         IN  IF c = 0 THEN Raise("ZeroDivisionError")
             ELSE Ok(<<Div(a + b, c), Div(a + b, c) - c>>)

\* The call leg of call_put_options, from carry and d.
call_price(obj, carry, d) ==
    LET a == Mul(Mul(obj.So, carry[2]), norm_cdf(d[1]))
        b == Mul(Mul(obj.K, exp(Mul(-obj.r, obj.T))), norm_cdf(d[2]))
    IN  a - b

\* put_price reading Nd1_pos where the code reads Nd1_neg.
put_price_mut(obj, carry, d) ==
    LET c == Mul(Mul(obj.K, exp(Mul(-obj.r, obj.T))), norm_cdf(-d[2]))
        dd == Mul(Mul(obj.So, carry[2]), norm_cdf(d[1]))
    IN  c - dd

\* The put leg of call_put_options, from carry and d.
put_price(obj, carry, d) ==
    LET c == Mul(Mul(obj.K, exp(Mul(-obj.r, obj.T))), norm_cdf(-d[2]))
        dd == Mul(Mul(obj.So, carry[2]), norm_cdf(-d[1]))
    IN  c - dd

\* Black_Scholes.call_put_options.
call_put_options(obj) ==
    LET carry == carry_benefits(obj)
        d == d1_d2(obj)
    IN  IF carry.err # "none" THEN carry
        ELSE IF d.err # "none" THEN d
        ELSE Ok(<<call_price(obj, carry.val, d.val),
                  put_price(obj, carry.val, d.val)>>)

\* equity_forward discounting the spot by the yield in both branches.
equity_forward_mut(obj) ==
    IF obj.div \in {"yes", "no"}
    THEN Ok(<<Div(obj.So, exp(Mul(obj.q, obj.T)))
              - Div(obj.K, exp(Mul(obj.r, obj.T)))>>)
    ELSE Raise("UnboundLocalError")

\* Black_Scholes.equity_forward: neither branch binds a and b for any other
\* value of div, and NPV = a - b then raises.
equity_forward(obj) ==
    IF obj.div = "yes"
    THEN Ok(<<Div(obj.So, exp(Mul(obj.q, obj.T)))
              - Div(obj.K, exp(Mul(obj.r, obj.T)))>>)
    ELSE IF obj.div = "no"
    THEN Ok(<<obj.So - Div(obj.K, exp(Mul(obj.r, obj.T)))>>)
    ELSE Raise("UnboundLocalError")

\* delta_pair discounting by the carry-adjusted factor of carry_benefits.
delta_pair_mut(obj, d) ==
    LET ec == carry_benefits(obj).val[2] IN
    <<Mul(ec, norm_cdf(d[1])), Mul(-ec, norm_cdf(-d[1]))>>

\* The two deltas of delta, from d.
delta_pair(obj, d) ==
    <<Mul(exp(Mul(-obj.q, obj.T)), norm_cdf(d[1])),
      Mul(-exp(Mul(-obj.q, obj.T)), norm_cdf(-d[1]))>>

\* Black_Scholes.delta.
delta(obj) ==
    LET d == d1_d2(obj) IN
    IF d.err # "none" THEN d ELSE Ok(delta_pair(obj, d.val))

\* gamma_value discounting by the carry-adjusted factor of carry_benefits.
gamma_value_mut(obj, d) ==
    LET a == carry_benefits(obj).val[2]
        b == Mul(Mul(obj.So, obj.mu), sqrt(obj.T))
    IN  IF b = 0 THEN Raise("ZeroDivisionError")
        ELSE Ok(<<Mul(Div(a, b), norm_pdf(d[1]))>>)

\* The body of gamma after d1_d2 has returned d.
gamma_value(obj, d) ==
    LET a == exp(Mul(-obj.q, obj.T))
        b == Mul(Mul(obj.So, obj.mu), sqrt(obj.T))
    IN  IF b = 0 THEN Raise("ZeroDivisionError")
        ELSE Ok(<<Mul(Div(a, b), norm_pdf(d[1]))>>)

\* Black_Scholes.gamma.
gamma(obj) ==
    LET d == d1_d2(obj) IN
    IF d.err # "none" THEN d ELSE gamma_value(obj, d.val)

Methods ==
    {"carry_benefits", "d1_d2", "call_put_options", "equity_forward",
     "delta", "gamma"}

\* What method op returns, or raises, on obj.
Invoke(obj, op) ==
    CASE op = "carry_benefits" -> carry_benefits(obj)
      [] op = "d1_d2" -> d1_d2(obj)
      [] op = "call_put_options" -> call_put_options(obj)
      [] op = "equity_forward" -> equity_forward(obj)
      [] op = "delta" -> delta(obj)
      [] op = "gamma" -> gamma(obj)

\* A method that rescales the stored term again, as __init__ does.
AfterCall_mut(obj, op) ==
    IF op = "d1_d2" THEN [obj EXCEPT !.T = Div(obj.T, 12 * SCALE)] ELSE obj

\* The instance after method op has run: no method assigns to an attribute.
AfterCall(obj, op) == obj

\* ------------------------------------------------------------ inputs

Prices == {-2, 0} \cup (2 .. MaxPrice)

Terms == {-6, 0, 6, 12}

Rates == {-Lit(200), Lit(500)}

Yields == {0, Lit(1000)}

Vols == {-Lit(3000), 0, Lit(3000)}

Modes == {"yes", "no", "maybe"}

\* ----------------------------------------------------------- actions

Init ==
    /\ self = NoInstance
    /\ ctor = NoInstance
    /\ last = NoCall
    /\ calls = 0

\* bsm = Black_Scholes(K, T_trm, So, r, q, mu, div)
Construct ==
    /\ self = NoInstance
    /\ \E K \in Prices, T_trm \in Terms, So \in Prices, r \in Rates,
          q \in Yields, mu \in Vols, div \in Modes :
          /\ self' = BlackScholesInit(K, T_trm, So, r, q, mu, div)
          /\ ctor' = [K |-> K, T |-> T_trm, So |-> So, r |-> r, q |-> q,
                      mu |-> mu, div |-> div]
    /\ UNCHANGED <<last, calls>>

\* A method call on the constructed instance records what it returned or
\* raised and leaves the instance as the method left it.
Call(op, out) ==
    /\ last' = [op |-> op, out |-> out]
    /\ self' = AfterCall(self, op)
    /\ calls' = calls + 1
    /\ UNCHANGED ctor

\* bsm.carry_benefits()
CallCarryBenefits ==
    /\ self # NoInstance /\ calls < MaxCalls
    /\ Call("carry_benefits", carry_benefits(self))

\* bsm.d1_d2()
CallD1D2 ==
    /\ self # NoInstance /\ calls < MaxCalls
    /\ Call("d1_d2", d1_d2(self))

\* bsm.call_put_options()
CallCallPutOptions ==
    /\ self # NoInstance /\ calls < MaxCalls
    /\ Call("call_put_options", call_put_options(self))

\* bsm.equity_forward()
CallEquityForward ==
    /\ self # NoInstance /\ calls < MaxCalls
    /\ Call("equity_forward", equity_forward(self))

\* bsm.delta()
CallDelta ==
    /\ self # NoInstance /\ calls < MaxCalls
    /\ Call("delta", delta(self))

\* bsm.gamma()
CallGamma ==
    /\ self # NoInstance /\ calls < MaxCalls
    /\ Call("gamma", gamma(self))

Next ==
    \/ Construct
    \/ CallCarryBenefits
    \/ CallD1D2
    \/ CallCallPutOptions
    \/ CallEquityForward
    \/ CallDelta
    \/ CallGamma

Spec == Init /\ [][Next]_vars

\* ------------------------------------------------------------ claims

Recognised == self.div \in {"yes", "no"}

\* The instance holds valid Parameters: K, So, T and mu strictly positive and
\* a recognised dividend mode.
Valid ==
    /\ Recognised
    /\ self.K > 0 /\ self.So > 0 /\ self.T > 0 /\ self.mu > 0

\* The last call was method op and it returned a value.
Returned(op) == last.op = op /\ last.out.err = "none"

\* The spec's DomainError: Python's ValueError (math domain error) and
\* ZeroDivisionError.
IsDomainError(out) ==
    out.err \in {"ValueError", "ZeroDivisionError"} /\ out.val = <<>>

Near(x, y) == Abs(x - y) <= Tol

\* The instance __init__ builds from the constructor's arguments.
Fresh ==
    BlackScholesInit(ctor.K, ctor.T, ctor.So, ctor.r, ctor.q, ctor.mu, ctor.div)

\* exp(-r*T) and exp(-q*T) of the instance.
DiscountR == exp(Mul(-self.r, self.T))

DiscountQ == exp(Mul(-self.q, self.T))

\* C1: put-call parity. For valid Parameters and either dividend mode, the
\* pair returned by call_put_options satisfies
\* call - put = So * discountFactor - K * exp(-r*T), discountFactor being the
\* second component of carry_benefits, up to rounding.
C1_PutCallParity ==
    (Valid /\ Returned("call_put_options")) =>
        Near(last.out.val[1] - last.out.val[2],
             Mul(self.So, carry_benefits(self).val[2]) - Mul(self.K, DiscountR))

\* C1's case: prices returned for a valid instance without dividends whose
\* yield is not zero and whose put is worth more than the call.
C1_Witness ==
    /\ Valid /\ Returned("call_put_options")
    /\ self.div = "no" /\ self.q # 0
    /\ last.out.val[1] < last.out.val[2]

\* C2: d1_d2 fails with a DomainError whenever T <= 0, mu <= 0, So <= 0 or
\* K <= 0, and returns a pair only when all four are strictly positive.
C2_D1D2DomainError ==
    (Recognised /\ last.op = "d1_d2") =>
        /\ (self.T <= 0 \/ self.mu <= 0 \/ self.So <= 0 \/ self.K <= 0)
               => IsDomainError(last.out)
        /\ last.out.err = "none"
               => (self.T > 0 /\ self.mu > 0 /\ self.So > 0 /\ self.K > 0)

\* C3: carry_benefits fails with ConfigurationError, and with no other
\* error, whenever the dividend mode is not one of the two recognised values.
C3_CarryConfigurationError ==
    (self # NoInstance /\ ~Recognised /\ last.op = "carry_benefits") =>
        last.out = Raise("ConfigurationError")

\* C4: an unrecognised dividend mode is rejected at construction: no
\* instance exists whose mode is other than the two recognised values.
C4_NoUnrecognisedInstance ==
    self # NoInstance => Recognised

\* C5 as stated: with K = 0 or So = 0, each of call_put_options,
\* equity_forward, delta and gamma raises a DomainError and returns nothing.
C5_AllOutputsRaise ==
    (Recognised /\ (self.K = 0 \/ self.So = 0)
       /\ last.op \in {"call_put_options", "equity_forward", "delta", "gamma"})
        => IsDomainError(last.out)

\* C5 as amended: with K = 0 or So = 0 and a recognised mode,
\* call_put_options, delta and gamma raise a DomainError and return nothing,
\* while equity_forward, which takes no logarithm and divides by neither,
\* returns So * discountFactor - K * exp(-r*T).
C5_OptionOutputsRaise ==
    (Recognised /\ (self.K = 0 \/ self.So = 0)) =>
        /\ last.op \in {"call_put_options", "delta", "gamma"}
               => IsDomainError(last.out)
        /\ last.op = "equity_forward" =>
               /\ last.out.err = "none"
               /\ Near(last.out.val[1],
                       Mul(self.So, carry_benefits(self).val[2])
                         - Mul(self.K, DiscountR))

\* C5's case: gamma was called on an instance whose strike is zero, with all
\* else valid, and raised.
C5_Witness ==
    /\ Recognised /\ self.K = 0 /\ self.So > 0 /\ self.T > 0 /\ self.mu > 0
    /\ last.op = "gamma" /\ last.out.err = "ZeroDivisionError"

\* C6: after any sequence of method calls the attributes are those the
\* constructor stored, and the last call returned (or raised) what the same
\* method does when called first on a freshly constructed instance.
C6_NoMutation ==
    self # NoInstance =>
        /\ self = Fresh
        /\ last.op \in Methods => last.out = Invoke(Fresh, last.op)

\* C6's case: a valid instance on which d1_d2 was called after other calls.
C6_Witness ==
    /\ Valid /\ calls >= 3 /\ Returned("d1_d2")

\* C7: for valid Parameters and either dividend mode, the pair returned by
\* delta satisfies deltaCall - deltaPut = exp(-q*T), up to rounding.
C7_DeltaDifference ==
    (Valid /\ Returned("delta")) =>
        Near(last.out.val[1] - last.out.val[2], DiscountQ)

\* C7's case: deltas returned without dividends and with a yield that is not
\* zero, their difference being exp(-q*T) and not 1.
C7_Witness ==
    /\ Valid /\ Returned("delta")
    /\ self.div = "no" /\ self.q # 0
    /\ ~Near(last.out.val[1] - last.out.val[2], SCALE)

\* C8: for valid Parameters without dividends, whatever q is, carry_benefits
\* returns carry 0 and discount factor 1, and equity_forward returns
\* So - K * exp(-r*T), the value it returns for q = 0.
C8_NoDividend ==
    (Valid /\ self.div = "no") =>
        /\ last.op = "carry_benefits" => last.out = Ok(<<0, SCALE>>)
        /\ last.op = "equity_forward" =>
               /\ last.out.err = "none"
               /\ Near(last.out.val[1], self.So - Mul(self.K, DiscountR))
               /\ last.out = equity_forward([self EXCEPT !.q = 0])

\* C8's case: carry_benefits returned for a valid instance without dividends
\* whose yield is not zero.
C8_Witness ==
    /\ Valid /\ self.div = "no" /\ self.q # 0
    /\ Returned("carry_benefits")

\* C9: delta and gamma discount by exp(-q*T) of the raw yield in both
\* dividend modes: deltaCall = exp(-q*T) * Phi(d1),
\* deltaPut = -exp(-q*T) * Phi(-d1) and
\* gamma = exp(-q*T) / (So * mu * sqrt(T)) * phi(d1), d1 being that of d1_d2.
C9_RawYieldDiscount ==
    /\ Returned("delta") =>
           last.out.val = <<Mul(DiscountQ, norm_cdf(d1_d2(self).val[1])),
                            Mul(-DiscountQ, norm_cdf(-d1_d2(self).val[1]))>>
    /\ Returned("gamma") =>
           last.out.val =
               <<Mul(Div(DiscountQ, Mul(Mul(self.So, self.mu), sqrt(self.T))),
                     norm_pdf(d1_d2(self).val[1]))>>

\* C9's case: gamma returned without dividends for a yield that is not zero,
\* where exp(-q*T) differs from the discount factor of carry_benefits.
C9_Witness ==
    /\ Valid /\ Returned("gamma")
    /\ self.div = "no" /\ self.q # 0
    /\ DiscountQ # carry_benefits(self).val[2]
    /\ last.out.val[1] > 0

\* C10: for valid Parameters and both recognised modes, call - put of
\* call_put_options equals the value equity_forward returns, up to rounding.
C10_CallMinusPutIsForward ==
    /\ (Valid /\ Returned("call_put_options")) =>
           Near(last.out.val[1] - last.out.val[2], equity_forward(self).val[1])
    /\ (Valid /\ Returned("equity_forward")) =>
           Near(call_put_options(self).val[1] - call_put_options(self).val[2],
                last.out.val[1])

\* C10's case: the forward value returned for a valid dividend-paying
\* instance whose yield is not zero.
C10_Witness ==
    /\ Valid /\ Returned("equity_forward")
    /\ self.div = "yes" /\ self.q # 0

====
